---- MODULE Spec2Model ----
(***************************************************************************)
(* Mini-shop: the order / payment reconciliation core of server.js.        *)
(*                                                                         *)
(* The repository holds two versions of server.js (a Mollie one and a      *)
(* Stripe / multi-provider one) over the same SQLite schema.  The model    *)
(* keeps the tables (products, orders), the payment provider's records,    *)
(* and every request that is suspended at an await or at a queued          *)
(* statement.  One action is one uninterrupted run of handler code between *)
(* two suspension points.                                                  *)
(***************************************************************************)
EXTENDS Integers, Sequences, FiniteSets, TLC

(* ------------------------------ bounds -------------------------------- *)

\* Orders that checkout may create (the AUTOINCREMENT id stops here).
MaxOrders == 1

\* Requests that may be suspended at the same time.
MaxInFlight == 1

\* Initial stock: product 1 holds any of 0..MaxInventory, product 2 holds
\* MaxInventory.
MaxInventory == 2

\* Largest quantity a cart line asks for.
MaxQuantity == 3

\* How often the provider delivers the success event of one order.
MaxDeliveries == 2

(* ------------------------------ values -------------------------------- *)

\* SQL NULL / JS undefined in a text column or a request field.
Null == "NULL"

\* SQL NULL in orders.provider_payment_id; payment ids start at 1.
NoPayment == 0

ProductIds == {1, 2}

\* A product id no catalog row has.
UnknownProduct == Cardinality(ProductIds) + 1

\* Catalog prices in thousandths of the major unit (9.990 and 1.996).
Prices == {9990, 1996}

\* A raw JSON quantity: a number, or text that is no number.
Num(n) == [kind |-> "number", n |-> n]
Text == [kind |-> "text", n |-> 0]

Item(id, q) == [id |-> id, quantity |-> q]

\* The request bodies' item lists that the model sends to checkout: a
\* negative, a zero and a non-numeric quantity, two lines on two products,
\* a line on a product that does not exist, and no line at all.
Carts ==
    { <<Item(1, Num(-1))>>,
      <<Item(1, Num(0))>>,
      <<Item(1, Text)>>,
      <<Item(1, Num(1)), Item(2, Num(MaxQuantity))>>,
      <<Item(1, Num(1)), Item(UnknownProduct, Num(1))>>,
      <<>> }

\* JS Number(x): the number itself, NaN for text.
Number(raw) ==
    IF raw.kind = "number" THEN [isNaN |-> FALSE, n |-> raw.n]
    ELSE [isNaN |-> TRUE, n |-> 0]

\* JS `x || d` for a number x: d when x is NaN or 0.
OrElse(x, d) == IF x.isNaN \/ x.n = 0 THEN d ELSE x.n

\* Mutant of toCents: truncates instead of rounding.
toCentsTruncating(n) == n \div 10

\* toCents = Math.round(Number(n) * 100), on a price in thousandths.
\* Math.round(x) is floor(x + 0.5); \div is the floor division.
toCents(n) == (n + 5) \div 10

RECURSIVE SumSeq(_)
SumSeq(s) == IF s = <<>> THEN 0 ELSE Head(s) + SumSeq(Tail(s))

(* ------------------------------- state -------------------------------- *)

VARIABLES
    products,        \* table products: id -> [price, inventory]
    orders,          \* table orders: id -> row
    lastID,          \* orders' AUTOINCREMENT counter: ids are never reused
    payments,        \* the provider's records: payment id -> [order, provider, status]
    reqs,            \* the suspended requests, one per slot
    response,        \* the status code of the last HTTP response sent
    returned,        \* the payment status in that response's body, Null when none
    decrements,      \* history: order id -> runs of the inventory loop for it
    everPaid,        \* history: order id -> its status has been paid at some time
    stock0           \* history: product id -> its stock in the initial state

vars == <<products, orders, lastID, payments, reqs, response, returned,
          decrements, everPaid, stock0>>

OrderIds == 1..MaxOrders
Slots == DOMAIN reqs

Idle == [op |-> "idle", pc |-> "idle", provider |-> Null, order |-> 0,
         items |-> <<>>, total |-> 0, payment |-> NoPayment, found |-> FALSE,
         status |-> Null, rowStatus |-> Null]

\* A new request takes the first free slot (slots are interchangeable).
FreeSlot(s) == reqs[s] = Idle /\ \A t \in 1..(s - 1) : reqs[t] # Idle

\* The status code of the response; op names the route for the reader.
Respond(op, code) == response' = code /\ returned' = Null

\* res.json({ status }): a 200 whose body carries a payment status.
RespondStatus(op, status) == response' = 200 /\ returned' = status

\* Every product starts at the higher of the two prices.
InitialPrice == CHOOSE p \in Prices : \A q \in Prices : p >= q

InitialCatalogs ==
    { (1 :> [price |-> InitialPrice, inventory |-> n]) @@
      (2 :> [price |-> InitialPrice, inventory |-> MaxInventory]) : n \in 0..MaxInventory }

Init ==
    /\ products \in InitialCatalogs
    /\ orders = <<>>
    /\ lastID = 0
    /\ payments = <<>>
    /\ reqs = [s \in 1..MaxInFlight |-> Idle]
    /\ response = 0
    /\ returned = Null
    /\ decrements = [o \in OrderIds |-> 0]
    /\ everPaid = [o \in OrderIds |-> FALSE]
    /\ stock0 = [id \in ProductIds |-> products[id].inventory]

(* --------------------------- table helpers ---------------------------- *)

Remove(table, id) == [k \in DOMAIN table \ {id} |-> table[k]]

\* Mutant of SetStatus: a missing row is inserted with the status.
SetStatusUpserting(table, id, status) ==
    [k \in DOMAIN table \cup {id} |->
        IF k \in DOMAIN table
        THEN IF k = id THEN [table[k] EXCEPT !.status = status] ELSE table[k]
        ELSE [items |-> <<>>, total_cents |-> 0, status |-> status,
              tracking_number |-> Null, provider |-> Null,
              provider_payment_id |-> NoPayment]]

\* UPDATE orders SET status = ? WHERE id = ?: a missing row changes nothing.
SetStatus(table, id, status) ==
    IF id \in DOMAIN table THEN [table EXCEPT ![id].status = status] ELSE table

\* History: the orders whose status has been paid at some time.
\* (Conjoined after the step's assignment to orders'.)
RecordPaid ==
    everPaid' = [o \in OrderIds |->
                    everPaid[o] \/ (o \in DOMAIN orders' /\ orders'[o].status = "paid")]

(* ------------------------------ checkout ------------------------------ *)

\* The route's provider: "mollie" is the Mollie server's /api/checkout, the
\* others are the `provider` field of the multi-provider /api/checkout.
StubProviders == {"adyen", "payone", "paysafe", "computop", "paymenttree"}
CheckoutProviders == {"mollie", "stripe", "adyen", "bogus"}

\* rows.find(...) succeeds for every item.
Resolvable(items, ids) == \A i \in DOMAIN items : items[i].id \in ids

Normalized(items, catalog) ==
    [i \in DOMAIN items |->
        [unit_amount_cents |-> toCents(catalog[items[i].id].price),
         quantity |-> OrElse(Number(items[i].quantity), 1)]]

TotalCents(lines) ==
    SumSeq([i \in DOMAIN lines |-> lines[i].unit_amount_cents * lines[i].quantity])

NewOrder(items, total_cents, provider) ==
    [items |-> items, total_cents |-> total_cents, status |-> "pending",
     tracking_number |-> Null,
     provider |-> IF provider = "mollie" THEN "mollie" ELSE Null,
     provider_payment_id |-> NoPayment]

\* Checkouts that have passed validation and not yet inserted their order.
InsertsPending == Cardinality({s \in Slots : reqs[s].pc = "insert"})

\* Mutant of CheckoutNoItems: the empty cart is not rejected and an order
\* of nothing is inserted.
CheckoutNoItemsInserted(items) ==
    /\ items = <<>>
    /\ lastID < MaxOrders
    /\ lastID' = lastID + 1
    /\ orders' = orders @@ (lastID' :> NewOrder(items, 0, "mollie"))
    /\ Respond("checkout", 200)
    /\ UNCHANGED <<stock0, products, payments, reqs, decrements, everPaid>>

\* if(!items || !items.length) return 400
CheckoutNoItems(items) ==
    /\ items = <<>>
    /\ Respond("checkout", 400)
    /\ UNCHANGED <<stock0, products, orders, lastID, payments, reqs, decrements, everPaid>>

\* Mutant of CheckoutProductNotFound: the order is inserted before the items
\* are resolved, and stays when resolution fails.
CheckoutProductNotFoundAfterInsert(items) ==
    /\ items # <<>>
    /\ ~Resolvable(items, DOMAIN products)
    /\ lastID < MaxOrders
    /\ lastID' = lastID + 1
    /\ orders' = orders @@ (lastID' :> NewOrder(items, 0, "mollie"))
    /\ Respond("checkout", 500)
    /\ UNCHANGED <<stock0, products, payments, reqs, decrements, everPaid>>

\* The SELECT ran and some item has no product row: the map throws, 500.
CheckoutProductNotFound(items) ==
    /\ items # <<>>
    /\ ~Resolvable(items, DOMAIN products)
    /\ Respond("checkout", 500)
    /\ UNCHANGED <<stock0, products, orders, lastID, payments, reqs, decrements, everPaid>>

\* The SELECT ran, every item resolved: prices are read and the total is
\* computed; the INSERT is queued.
CheckoutPrice(s, items, provider) ==
    /\ FreeSlot(s)
    /\ items # <<>>
    /\ Resolvable(items, DOMAIN products)
    /\ lastID + InsertsPending < MaxOrders
    /\ reqs' = [reqs EXCEPT ![s] =
                  [Idle EXCEPT !.op = "checkout", !.pc = "insert",
                               !.provider = provider, !.items = items,
                               !.total = TotalCents(Normalized(items, products))]]
    /\ UNCHANGED <<stock0, products, orders, lastID, payments, response, returned, decrements, everPaid>>

\* INSERT INTO orders ...; resolve(this.lastID)
CheckoutInsert(s) ==
    /\ reqs[s].pc = "insert"
    /\ lastID' = lastID + 1
    /\ orders' = orders @@ (lastID' :> NewOrder(reqs[s].items, reqs[s].total, reqs[s].provider))
    /\ reqs' = [reqs EXCEPT ![s].pc = "create", ![s].order = lastID']
    /\ UNCHANGED <<stock0, products, payments, response, returned, decrements, everPaid>>

NextPaymentId == Cardinality(DOMAIN payments) + 1

\* The provider accepts the create call (mollie.payments.create,
\* stripe.checkout.sessions.create) with metadata.order_id.  The Mollie route
\* queues the UPDATE of provider_payment_id and answers without waiting for
\* it; the Stripe route stores no reference.
CheckoutCreatePayment(s) ==
    /\ reqs[s].pc = "create"
    /\ reqs[s].provider \in {"mollie", "stripe"}
    /\ payments' = payments @@
          (NextPaymentId :> [order |-> reqs[s].order, provider |-> reqs[s].provider,
                             status |-> "open"])
    /\ reqs' = [reqs EXCEPT ![s] =
                  IF reqs[s].provider = "mollie"
                  THEN [reqs[s] EXCEPT !.pc = "persist", !.payment = NextPaymentId]
                  ELSE Idle]
    /\ Respond("checkout", 200)
    /\ UNCHANGED <<stock0, products, orders, lastID, decrements, everPaid>>

\* Mutant of CheckoutProviderError: the handler takes its order back.
CheckoutProviderErrorRollingBack(s) ==
    /\ reqs[s].pc = "create"
    /\ reqs[s].provider \in {"mollie", "stripe"}
    /\ orders' = Remove(orders, reqs[s].order)
    /\ reqs' = [reqs EXCEPT ![s] = Idle]
    /\ Respond("checkout", 500)
    /\ UNCHANGED <<stock0, products, lastID, payments, decrements, everPaid>>

\* The create call throws (provider error, timeout): catch, 500.
CheckoutProviderError(s) ==
    /\ reqs[s].pc = "create"
    /\ reqs[s].provider \in {"mollie", "stripe"}
    /\ reqs' = [reqs EXCEPT ![s] = Idle]
    /\ Respond("checkout", 500)
    /\ UNCHANGED <<stock0, products, orders, lastID, payments, decrements, everPaid>>

\* switch (provider): a stub answers 501, anything else 400.
CheckoutNoProvider(s) ==
    /\ reqs[s].pc = "create"
    /\ reqs[s].provider \notin {"mollie", "stripe"}
    /\ reqs' = [reqs EXCEPT ![s] = Idle]
    /\ Respond("checkout", IF reqs[s].provider \in StubProviders THEN 501 ELSE 400)
    /\ UNCHANGED <<stock0, products, orders, lastID, payments, decrements, everPaid>>

\* UPDATE orders SET provider_payment_id = ? WHERE id = ?
PersistReference(row, paymentId) == [row EXCEPT !.provider_payment_id = paymentId]

CheckoutPersist(s) ==
    /\ reqs[s].pc = "persist"
    /\ orders' = IF reqs[s].order \in DOMAIN orders
                 THEN [orders EXCEPT ![reqs[s].order] = PersistReference(@, reqs[s].payment)]
                 ELSE orders
    /\ reqs' = [reqs EXCEPT ![s] = Idle]
    /\ UNCHANGED <<stock0, products, lastID, payments, response, returned, decrements, everPaid>>

(* ------------------------------ provider ------------------------------ *)

\* Mollie's payment statuses that end a payment; "open" is the only other
\* status the model uses.  A Stripe session completes (paid) or expires.
TerminalStatuses == {"paid", "canceled", "expired", "failed"}

SettledStatuses(provider) ==
    IF provider = "mollie" THEN TerminalStatuses ELSE {"paid", "expired"}

\* The customer pays, cancels, or the payment expires or fails: an open
\* payment gets its final status.
ProviderSettle(p, status) ==
    /\ p \in DOMAIN payments
    /\ payments[p].status = "open"
    /\ status \in SettledStatuses(payments[p].provider)
    /\ payments' = [payments EXCEPT ![p].status = status]
    /\ UNCHANGED <<stock0, products, orders, lastID, reqs, response, returned, decrements, everPaid>>

\* The payments mollie.payments.get can return.
MolliePayments == {p \in DOMAIN payments : payments[p].provider = "mollie"}

(* ------------------------- inventory adjustment ----------------------- *)

Max(a, b) == IF a >= b THEN a ELSE b

\* Mutant of DecrementInventory: no floor at zero.
DecrementInventoryNoFloor(inventory, qty) == inventory - qty

\* inventory = MAX(inventory - ?, 0)
DecrementInventory(inventory, qty) == Max(inventory - qty, 0)

\* Mutant of DecrementAll: the loop ends at the first line whose product is
\* missing.
RECURSIVE DecrementAllStoppingAtMissing(_, _)
DecrementAllStoppingAtMissing(catalog, items) ==
    IF items = <<>> \/ Head(items).id \notin DOMAIN catalog THEN catalog
    ELSE LET it == Head(items)
             qty == OrElse(Number(it.quantity), 0)
         IN DecrementAllStoppingAtMissing(
                [catalog EXCEPT ![it.id].inventory = DecrementInventory(@, qty)], Tail(items))

\* items.forEach: one UPDATE products ... WHERE id = ? per item, in order; an
\* item whose product row is gone updates nothing.
RECURSIVE DecrementAll(_, _)
DecrementAll(catalog, items) ==
    IF items = <<>> THEN catalog
    ELSE LET it == Head(items)
             qty == OrElse(Number(it.quantity), 0)
             after == IF it.id \in DOMAIN catalog
                      THEN [catalog EXCEPT ![it.id].inventory = DecrementInventory(@, qty)]
                      ELSE catalog
         IN DecrementAll(after, Tail(items))

\* Success events of order o whose inventory loop is queued and has not run.
AppliesPending(o) ==
    Cardinality({s \in Slots : reqs[s].pc = "apply" /\ reqs[s].order = o})

\* The provider has not yet given up redelivering the success event of o.
MayDeliver(o) == o \in OrderIds => decrements[o] + AppliesPending(o) < MaxDeliveries

\* The callback of SELECT items_json: the inventory loop when the row was
\* found, then UPDATE orders SET status = 'paid'.
ApplyPaid(s) ==
    /\ reqs[s].pc = "apply"
    /\ products' = IF reqs[s].found THEN DecrementAll(products, reqs[s].items) ELSE products
    /\ decrements' = IF reqs[s].found /\ reqs[s].order \in OrderIds
                     THEN [decrements EXCEPT ![reqs[s].order] = @ + 1]
                     ELSE decrements
    /\ orders' = SetStatus(orders, reqs[s].order, "paid")
    /\ RecordPaid
    /\ reqs' = [reqs EXCEPT ![s] = Idle]
    /\ UNCHANGED <<stock0, lastID, payments, response, returned>>

(* --------------------------- Mollie webhook --------------------------- *)

\* Mutant of WebhookMollieGetFails: the error is not caught and the request
\* ends in a 500.
WebhookMollieGetFailsUncaught ==
    /\ Respond("webhook", 500)
    /\ UNCHANGED <<stock0, products, orders, lastID, payments, reqs, decrements, everPaid>>

\* mollie.payments.get throws (unknown id, provider error): catch, 200.
WebhookMollieGetFails ==
    /\ Respond("webhook", 200)
    /\ UNCHANGED <<stock0, products, orders, lastID, payments, reqs, decrements, everPaid>>

\* The payment's status is neither paid nor canceled, expired or failed.
WebhookMollieIgnored(p) ==
    /\ p \in MolliePayments
    /\ payments[p].status \notin TerminalStatuses
    /\ Respond("webhook", 200)
    /\ UNCHANGED <<stock0, products, orders, lastID, payments, reqs, decrements, everPaid>>

\* status = paid: SELECT items_json FROM orders WHERE id = metadata.order_id.
WebhookMolliePaidRun(s, p) ==
    /\ p \in MolliePayments
    /\ payments[p].status = "paid"
    /\ MayDeliver(payments[p].order)
    /\ LET o == payments[p].order IN
       reqs' = [reqs EXCEPT ![s] =
                  [Idle EXCEPT !.op = "webhook", !.pc = "apply", !.order = o,
                               !.found = (o \in DOMAIN orders),
                               !.items = IF o \in DOMAIN orders THEN orders[o].items ELSE <<>>]]
    /\ Respond("webhook", 200)
    /\ UNCHANGED <<stock0, products, orders, lastID, payments, decrements, everPaid>>

WebhookMolliePaid(s, p) == FreeSlot(s) /\ WebhookMolliePaidRun(s, p)

WebhookMollieApply(s) ==
    /\ reqs[s].op = "webhook"
    /\ ApplyPaid(s)

\* status in canceled, expired, failed: the UPDATE of status is queued.
WebhookMollieTerminal(s, p) ==
    /\ FreeSlot(s)
    /\ p \in MolliePayments
    /\ payments[p].status \in TerminalStatuses \ {"paid"}
    /\ reqs' = [reqs EXCEPT ![s] =
                  [Idle EXCEPT !.op = "webhook", !.pc = "update",
                               !.order = payments[p].order,
                               !.status = payments[p].status]]
    /\ Respond("webhook", 200)
    /\ UNCHANGED <<stock0, products, orders, lastID, payments, decrements, everPaid>>

\* Mutant of WebhookMollieUpdate: the inventory loop runs in this branch too.
WebhookMollieUpdateRunningLoop(s) ==
    /\ reqs[s].op = "webhook"
    /\ reqs[s].pc = "update"
    /\ products' = IF reqs[s].order \in DOMAIN orders
                   THEN DecrementAll(products, orders[reqs[s].order].items)
                   ELSE products
    /\ orders' = SetStatus(orders, reqs[s].order, reqs[s].status)
    /\ RecordPaid
    /\ reqs' = [reqs EXCEPT ![s] = Idle]
    /\ UNCHANGED <<stock0, lastID, payments, response, returned, decrements>>

\* UPDATE orders SET status = ? WHERE id = ?
WebhookMollieUpdate(s) ==
    /\ reqs[s].op = "webhook"
    /\ reqs[s].pc = "update"
    /\ orders' = SetStatus(orders, reqs[s].order, reqs[s].status)
    /\ RecordPaid
    /\ reqs' = [reqs EXCEPT ![s] = Idle]
    /\ UNCHANGED <<stock0, products, lastID, payments, response, returned, decrements>>

(* --------------------------- Stripe webhook --------------------------- *)

\* Mutant of StripeCompleted: an event is taken without its signature, so
\* anyone can send a checkout.session.completed for any order.
StripeCompletedUnsigned(o) == TRUE

\* Stripe signs a checkout.session.completed event for order o only when a
\* session created for o was paid.
StripeCompleted(o) ==
    \E p \in DOMAIN payments :
        /\ payments[p].provider = "stripe"
        /\ payments[p].order = o
        /\ payments[p].status = "paid"

\* constructEvent throws: 400.
StripeWebhookBadSignature ==
    /\ Respond("stripe", 400)
    /\ UNCHANGED <<stock0, products, orders, lastID, payments, reqs, decrements, everPaid>>

\* A verified event of another type, or one without metadata.order_id.
StripeWebhookOtherEvent ==
    /\ Respond("stripe", 200)
    /\ UNCHANGED <<stock0, products, orders, lastID, payments, reqs, decrements, everPaid>>

\* The SELECT finds no row: the callback logs and returns.
StripeWebhookOrderMissing(o) ==
    /\ StripeCompleted(o)
    /\ o \notin DOMAIN orders
    /\ Respond("stripe", 200)
    /\ UNCHANGED <<stock0, products, orders, lastID, payments, reqs, decrements, everPaid>>

StripeWebhookCompleted(s, o) ==
    /\ FreeSlot(s)
    /\ StripeCompleted(o)
    /\ o \in DOMAIN orders
    /\ MayDeliver(o)
    /\ reqs' = [reqs EXCEPT ![s] =
                  [Idle EXCEPT !.op = "stripe", !.pc = "apply", !.order = o,
                               !.found = TRUE, !.items = orders[o].items]]
    /\ Respond("stripe", 200)
    /\ UNCHANGED <<stock0, products, orders, lastID, payments, decrements, everPaid>>

StripeWebhookApply(s) ==
    /\ reqs[s].op = "stripe"
    /\ ApplyPaid(s)

(* ------------------------------- verify ------------------------------- *)

\* if (!orderId) return 400
VerifyMissingOrder ==
    /\ Respond("verify", 400)
    /\ UNCHANGED <<stock0, products, orders, lastID, payments, reqs, decrements, everPaid>>

\* if (err || !row) return 404
VerifyOrderNotFound(o) ==
    /\ o \notin DOMAIN orders
    /\ Respond("verify", 404)
    /\ UNCHANGED <<stock0, products, orders, lastID, payments, reqs, decrements, everPaid>>

\* SELECT provider_payment_id, status FROM orders WHERE id = ?
VerifySelectRun(s, o) ==
    /\ o \in DOMAIN orders
    /\ reqs' = [reqs EXCEPT ![s] =
                  [Idle EXCEPT !.op = "verify", !.pc = "fetch", !.order = o,
                               !.payment = orders[o].provider_payment_id,
                               !.rowStatus = orders[o].status]]
    /\ UNCHANGED <<stock0, products, orders, lastID, payments, response, returned, decrements, everPaid>>

VerifySelect(s, o) == FreeSlot(s) /\ VerifySelectRun(s, o)

\* mollie.payments.get throws (no reference stored, provider error): 500.
VerifyProviderError(s) ==
    /\ reqs[s].pc = "fetch"
    /\ reqs' = [reqs EXCEPT ![s] = Idle]
    /\ Respond("verify", 500)
    /\ UNCHANGED <<stock0, products, orders, lastID, payments, decrements, everPaid>>

\* Mutant of VerifyReturns: the order's stored status is returned.
VerifyReturnsRowStatus(paymentStatus, rowStatus) == rowStatus

\* return res.json({ status: payment.status })
VerifyReturns(paymentStatus, rowStatus) == paymentStatus

\* Mutant of VerifyApplies: writes paid whatever the row said.
VerifyAppliesUnguarded(paymentStatus, rowStatus) == paymentStatus = "paid"

\* Mutant of VerifyApplies: any provider status marks an unpaid order paid.
VerifyAppliesAnyStatus(paymentStatus, rowStatus) == rowStatus # "paid"

\* payment.status === 'paid' && row.status !== 'paid'
VerifyApplies(paymentStatus, rowStatus) ==
    paymentStatus = "paid" /\ rowStatus # "paid"

\* The provider answers; the UPDATE is queued when the guard passes, and the
\* provider's status is returned.
VerifyFetch(s) ==
    /\ reqs[s].pc = "fetch"
    /\ reqs[s].payment \in MolliePayments
    /\ reqs' = [reqs EXCEPT ![s] =
                  IF VerifyApplies(payments[reqs[s].payment].status, reqs[s].rowStatus)
                  THEN [reqs[s] EXCEPT !.pc = "update", !.status = "paid"]
                  ELSE Idle]
    /\ RespondStatus("verify",
                     VerifyReturns(payments[reqs[s].payment].status, reqs[s].rowStatus))
    /\ UNCHANGED <<stock0, products, orders, lastID, payments, decrements, everPaid>>

\* Mutant of VerifyUpdate: the poll runs the inventory loop as well.
VerifyUpdateDecrementing(s) ==
    /\ reqs[s].op = "verify"
    /\ reqs[s].pc = "update"
    /\ products' = IF reqs[s].order \in DOMAIN orders
                   THEN DecrementAll(products, orders[reqs[s].order].items)
                   ELSE products
    /\ orders' = SetStatus(orders, reqs[s].order, reqs[s].status)
    /\ RecordPaid
    /\ reqs' = [reqs EXCEPT ![s] = Idle]
    /\ UNCHANGED <<stock0, lastID, payments, response, returned, decrements>>

\* UPDATE orders SET status = 'paid' WHERE id = ?
VerifyUpdate(s) ==
    /\ reqs[s].op = "verify"
    /\ reqs[s].pc = "update"
    /\ orders' = SetStatus(orders, reqs[s].order, reqs[s].status)
    /\ RecordPaid
    /\ reqs' = [reqs EXCEPT ![s] = Idle]
    /\ UNCHANGED <<stock0, products, lastID, payments, response, returned, decrements>>

(* ------------------------------- admin -------------------------------- *)

\* Mutant of requireAdmin: lets every request through.
requireAdminAlways(sessionAdmin) == TRUE

\* requireAdmin: next() when req.session.admin is set, 401 otherwise.
requireAdmin(sessionAdmin) == sessionAdmin

\* JS `x || d` for a body field: d when x is undefined or the empty string.
OrDefault(x, d) == IF x = Null \/ x = "" THEN d ELSE x

\* The bodies the admin sends to PUT /api/orders/:id.
AdminStatusInputs == {Null, "paid", "cancelled"}
TrackingInputs == {Null, "TRK1"}

Unauthorized(op) ==
    /\ Respond(op, 401)
    /\ UNCHANGED <<stock0, products, orders, lastID, payments, reqs, decrements, everPaid>>

\* GET /api/orders
ListOrders(sessionAdmin) ==
    IF requireAdmin(sessionAdmin)
    THEN /\ Respond("listOrders", 200)
         /\ UNCHANGED <<stock0, products, orders, lastID, payments, reqs, decrements, everPaid>>
    ELSE Unauthorized("listOrders")

\* Mutant of AdminUpdateRow: also clears the stored payment reference.
AdminUpdateRowClearingReference(row, status, tracking_number) ==
    [row EXCEPT !.status = OrDefault(status, "processing"),
                !.tracking_number = OrDefault(tracking_number, Null),
                !.provider_payment_id = NoPayment]

\* UPDATE orders SET status=?, tracking_number=? WHERE id=?
\*   [status||'processing', tracking_number||null, id]
AdminUpdateRow(row, status, tracking_number) ==
    [row EXCEPT !.status = OrDefault(status, "processing"),
                !.tracking_number = OrDefault(tracking_number, Null)]

\* PUT /api/orders/:id
UpdateOrder(sessionAdmin, id, status, tracking_number) ==
    IF requireAdmin(sessionAdmin)
    THEN /\ orders' = IF id \in DOMAIN orders
                      THEN [orders EXCEPT ![id] = AdminUpdateRow(@, status, tracking_number)]
                      ELSE orders
         /\ RecordPaid
         /\ Respond("updateOrder", 200)
         /\ UNCHANGED <<stock0, products, lastID, payments, reqs, decrements>>
    ELSE Unauthorized("updateOrder")

\* DELETE /api/orders/:id
DeleteOrder(sessionAdmin, id) ==
    IF requireAdmin(sessionAdmin)
    THEN /\ orders' = Remove(orders, id)
         /\ Respond("deleteOrder", 200)
         /\ UNCHANGED <<stock0, products, lastID, payments, reqs, decrements, everPaid>>
    ELSE Unauthorized("deleteOrder")

\* Mutant of UpdateProduct: the new price is carried into the totals of the
\* orders already placed.
UpdateProductRepricingOrders(sessionAdmin, id, price) ==
    IF requireAdmin(sessionAdmin)
    THEN /\ products' = IF id \in DOMAIN products
                        THEN [products EXCEPT ![id].price = price]
                        ELSE products
         /\ orders' = [o \in DOMAIN orders |->
                          IF Resolvable(orders[o].items, DOMAIN products)
                          THEN [orders[o] EXCEPT !.total_cents =
                                   TotalCents(Normalized(orders[o].items, products'))]
                          ELSE orders[o]]
         /\ Respond("updateProduct", 200)
         /\ UNCHANGED <<stock0, lastID, payments, reqs, decrements, everPaid>>
    ELSE Unauthorized("updateProduct")

\* PUT /api/products/:id with a price
UpdateProduct(sessionAdmin, id, price) ==
    IF requireAdmin(sessionAdmin)
    THEN /\ products' = IF id \in DOMAIN products
                        THEN [products EXCEPT ![id].price = price]
                        ELSE products
         /\ Respond("updateProduct", 200)
         /\ UNCHANGED <<stock0, orders, lastID, payments, reqs, decrements, everPaid>>
    ELSE Unauthorized("updateProduct")

\* DELETE /api/products/:id
DeleteProduct(sessionAdmin, id) ==
    IF requireAdmin(sessionAdmin)
    THEN /\ products' = Remove(products, id)
         /\ Respond("deleteProduct", 200)
         /\ UNCHANGED <<stock0, orders, lastID, payments, reqs, decrements, everPaid>>
    ELSE Unauthorized("deleteProduct")

(* ---------------------------- specification --------------------------- *)

\* The slots a request can take and the ids a payment can have.
SlotIds == 1..MaxInFlight
PaymentIds == 1..MaxOrders

Checkout(carts, providers) ==
    \/ \E items \in carts :
          \/ CheckoutNoItems(items)
          \/ CheckoutProductNotFound(items)
          \/ \E s \in SlotIds, provider \in providers : CheckoutPrice(s, items, provider)
    \/ \E s \in SlotIds :
          \/ CheckoutInsert(s)
          \/ CheckoutCreatePayment(s)
          \/ CheckoutProviderError(s)
          \/ CheckoutNoProvider(s)
          \/ CheckoutPersist(s)

Provider == \E p \in PaymentIds, status \in TerminalStatuses : ProviderSettle(p, status)

WebhookMollie ==
    \/ WebhookMollieGetFails
    \/ \E p \in PaymentIds :
          \/ WebhookMollieIgnored(p)
          \/ \E s \in SlotIds : WebhookMolliePaid(s, p) \/ WebhookMollieTerminal(s, p)
    \/ \E s \in SlotIds : WebhookMollieApply(s) \/ WebhookMollieUpdate(s)

WebhookStripe ==
    \/ StripeWebhookBadSignature
    \/ StripeWebhookOtherEvent
    \/ \E o \in OrderIds :
          \/ StripeWebhookOrderMissing(o)
          \/ \E s \in SlotIds : StripeWebhookCompleted(s, o)
    \/ \E s \in SlotIds : StripeWebhookApply(s)

Verify ==
    \/ VerifyMissingOrder
    \/ \E o \in OrderIds \cup {MaxOrders + 1} :
          \/ VerifyOrderNotFound(o)
          \/ \E s \in SlotIds : VerifySelect(s, o)
    \/ \E s \in SlotIds : VerifyProviderError(s) \/ VerifyFetch(s) \/ VerifyUpdate(s)

\* With an admin session every body is tried; without one the request is
\* refused before its body is read, so one body stands for all.
OrdersAdmin(statuses, trackings) ==
    \/ \E sessionAdmin \in BOOLEAN : ListOrders(sessionAdmin)
    \/ \E id \in OrderIds, status \in statuses, tracking \in trackings :
          UpdateOrder(TRUE, id, status, tracking)
    \/ \E id \in OrderIds : UpdateOrder(FALSE, id, "paid", Null)
    \/ \E id \in OrderIds, sessionAdmin \in BOOLEAN : DeleteOrder(sessionAdmin, id)

ProductsAdmin(prices) ==
    \/ \E id \in ProductIds, price \in prices : UpdateProduct(TRUE, id, price)
    \/ \E id \in ProductIds : UpdateProduct(FALSE, id, 0)
    \/ \E id \in ProductIds, sessionAdmin \in BOOLEAN : DeleteProduct(sessionAdmin, id)

\* The state after one checkout of `items` has inserted its order and the
\* provider has created the payment.  The Mollie route's UPDATE of the
\* reference is still queued when `persisted` is false.
AfterCheckout(catalogs, items, provider, persisted) ==
    /\ products \in catalogs
    /\ lastID = 1
    /\ payments = (1 :> [order |-> 1, provider |-> provider, status |-> "open"])
    /\ orders = (1 :> LET row == NewOrder(items, TotalCents(Normalized(items, products)), provider)
                      IN IF provider = "mollie" /\ persisted
                         THEN PersistReference(row, 1) ELSE row)
    /\ reqs = [s \in 1..MaxInFlight |->
                 IF s = 1 /\ provider = "mollie" /\ ~persisted
                 THEN [Idle EXCEPT !.op = "checkout", !.pc = "persist", !.provider = provider,
                                   !.order = 1, !.items = items, !.payment = 1,
                                   !.total = TotalCents(Normalized(items, products))]
                 ELSE Idle]
    /\ response = 200
    /\ returned = Null
    /\ decrements = [o \in OrderIds |-> 0]
    /\ everPaid = [o \in OrderIds |-> FALSE]
    /\ stock0 = [id \in ProductIds |-> products[id].inventory]

\* A cart of two lines, the second asking for more than is in stock, and the
\* catalog in which every product is fully stocked.
TwoLines == <<Item(1, Num(1)), Item(2, Num(MaxQuantity))>>

FullCatalog == { c \in InitialCatalogs : \A id \in ProductIds : c[id].inventory = MaxInventory }

ReconcileCarts == { items \in Carts : items # <<>> /\ Resolvable(items, ProductIds) }

InitReconcile ==
    \E items \in ReconcileCarts, provider \in {"mollie", "stripe"} :
        AfterCheckout(InitialCatalogs, items, provider, TRUE)

NextReconcile ==
    \/ Provider
    \/ WebhookMollie
    \/ WebhookStripe
    \/ Verify
    \/ OrdersAdmin(AdminStatusInputs, TrackingInputs)

SpecReconcile == InitReconcile /\ [][NextReconcile]_vars

(* One paid-for order in fulfilment: the admin does only what fulfilment    *)
(* asks, marking the order as processing with or without a tracking number.*)
NextFulfilment ==
    \/ Provider
    \/ WebhookMollie
    \/ WebhookStripe
    \/ Verify
    \/ OrdersAdmin({Null}, TrackingInputs)

InitFulfilment ==
    \E provider \in {"mollie", "stripe"} : AfterCheckout(FullCatalog, TwoLines, provider, TRUE)

SpecFulfilment == InitFulfilment /\ [][NextFulfilment]_vars

\* The admin's changes to the catalog.
CatalogChanges(prices) ==
    \/ \E id \in ProductIds, price \in prices : UpdateProduct(TRUE, id, price)
    \/ \E id \in ProductIds : DeleteProduct(TRUE, id)

\* Checkout reads no stock: one initial catalog is enough.
InitCheckout ==
    /\ Init
    /\ \A id \in ProductIds : products[id].inventory = MaxInventory

SpecCheckout == InitCheckout /\ [][Checkout(Carts, CheckoutProviders) \/ CatalogChanges(Prices)]_vars

(* Checkouts from the empty store with the polls that follow them: the    *)
(* whole pipeline of one request, its failures included, and no admin.     *)
PipelineCarts == {TwoLines, <<Item(1, Num(1)), Item(UnknownProduct, Num(1))>>, <<>>}

NextPipeline ==
    \/ Checkout(PipelineCarts, CheckoutProviders)
    \/ Provider
    \/ Verify

SpecPipeline == InitCheckout /\ [][NextPipeline]_vars

(* One order from its checkout's last queued statement on, under every     *)
(* operation that can follow: reconciliation, the admin's order routes and *)
(* the admin's catalog changes.                                            *)
InitLifecycle ==
    \E provider \in {"mollie", "stripe"} : AfterCheckout(FullCatalog, TwoLines, provider, FALSE)

NextLifecycle ==
    \/ \E s \in SlotIds : CheckoutPersist(s)
    \/ NextReconcile
    \/ CatalogChanges(Prices)

SpecLifecycle == InitLifecycle /\ [][NextLifecycle]_vars

(* One webhook delivery and one verify poll for the same pending order,    *)
(* both arrived and neither started, the provider reporting paid.          *)
RaceCatalogs == [ProductIds -> [price : {InitialPrice}, inventory : 0..MaxInventory]]

RaceSlots == {1, 2}

Arrived(op) == [Idle EXCEPT !.op = op, !.pc = "arrived", !.order = 1]

InitRace ==
    /\ \E items \in ReconcileCarts :
          /\ products \in RaceCatalogs
          /\ orders = (1 :> PersistReference(
                               NewOrder(items, TotalCents(Normalized(items, products)), "mollie"), 1))
    /\ lastID = 1
    /\ payments = (1 :> [order |-> 1, provider |-> "mollie", status |-> "paid"])
    /\ reqs = [s \in RaceSlots |-> Arrived(IF s = 1 THEN "webhook" ELSE "verify")]
    /\ response = 200
    /\ returned = Null
    /\ decrements = [o \in OrderIds |-> 0]
    /\ everPaid = [o \in OrderIds |-> FALSE]
    /\ stock0 = [id \in ProductIds |-> products[id].inventory]

NextRace ==
    \E s \in RaceSlots :
        \/ reqs[s] = Arrived("webhook") /\ WebhookMolliePaidRun(s, 1)
        \/ WebhookMollieApply(s)
        \/ reqs[s] = Arrived("verify") /\ VerifySelectRun(s, 1)
        \/ VerifyFetch(s)
        \/ VerifyUpdate(s)

SpecRace == InitRace /\ [][NextRace]_vars

(* The whole system from the empty store.                                  *)
Next ==
    \/ Checkout(Carts, CheckoutProviders)
    \/ Provider
    \/ WebhookMollie
    \/ WebhookStripe
    \/ Verify
    \/ OrdersAdmin(AdminStatusInputs, TrackingInputs)
    \/ ProductsAdmin(Prices)

Spec == Init /\ [][Next]_vars

(* ------------------------------ properties ---------------------------- *)

\* The quantity the inventory loop subtracts for a cart line: the number the
\* line carries, nothing for a line whose quantity is no number.
Subtracted(line) == IF line.quantity.kind = "number" THEN line.quantity.n ELSE 0

\* The stock of product id after the inventory loop has run exactly once
\* over `items`, starting from the initial stock.  (No cart names a product
\* twice.)
StockAfterOneRun(id, items) ==
    IF \E i \in DOMAIN items : items[i].id = id
    THEN LET line == items[CHOOSE i \in DOMAIN items : items[i].id = id]
             left == stock0[id] - Subtracted(line)
         IN IF left > 0 THEN left ELSE 0
    ELSE stock0[id]

\* C1: however often the provider delivers the paid webhook of one order,
\* the inventory loop runs for that order at most once, so each product's
\* stock is decremented once in total and not once per delivery.
C1_DecrementedOncePerOrder ==
    \A o \in DOMAIN orders :
        /\ decrements[o] <= 1
        /\ decrements[o] = 1 =>
              \A id \in DOMAIN products :
                  products[id].inventory = StockAfterOneRun(id, orders[o].items)

\* Both requests of the race have run to their end.
RaceOver == \A s \in DOMAIN reqs : reqs[s] = Idle

\* C2: when a webhook delivery and a verify poll for the same pending order
\* both see the provider report paid, then under every interleaving of
\* their steps the order ends paid and every product's stock is what one
\* run of the inventory loop leaves.
C2_RaceEndsPaidDecrementedOnce ==
    RaceOver =>
        /\ orders[1].status = "paid"
        /\ \A id \in DOMAIN products :
              products[id].inventory = StockAfterOneRun(id, orders[1].items)

\* The race is over: the order is paid, the inventory loop has run and stock
\* has moved.
C2_RaceRan ==
    /\ RaceOver
    /\ decrements[1] = 1
    /\ orders[1].status = "paid"
    /\ \E id \in DOMAIN products : products[id].inventory < stock0[id]

\* C3: whatever webhook deliveries, verify polls and admin status updates
\* act on an order, its status goes from a value other than paid to paid at
\* most once: an order that has been paid before and is not paid now does
\* not become paid again.
C3_PaidEnteredAtMostOnce ==
    [][\A o \in DOMAIN orders \cap DOMAIN orders' :
          (everPaid[o] /\ orders[o].status # "paid") => orders'[o].status # "paid"]_vars

\* The step is taken by the verify poll in slot s, and that poll read the
\* order's status as paid.
PollOnPaidSteps(s) ==
    \/ reqs[s] = Idle /\ reqs'[s].op = "verify" /\ reqs'[s].rowStatus = "paid"
    \/ reqs[s].op = "verify" /\ reqs[s].rowStatus = "paid" /\ reqs'[s] # reqs[s]

\* C4: no step of a verify poll that found its order paid changes a
\* product's stock or the order, whatever the provider reports.
C4_PollOnPaidChangesNothing ==
    [][\A s \in Slots : PollOnPaidSteps(s) => products' = products /\ orders' = orders]_vars

\* A poll has read paid from an order whose payment the provider reports paid
\* and whose status the admin has changed since.
C4_PollReadPaid ==
    \E s \in Slots :
        /\ reqs[s].op = "verify" /\ reqs[s].pc = "fetch" /\ reqs[s].rowStatus = "paid"
        /\ reqs[s].order \in DOMAIN orders
        /\ orders[reqs[s].order].status # "paid"
        /\ reqs[s].payment \in DOMAIN payments
        /\ payments[reqs[s].payment].status = "paid"

\* The step runs the inventory loop of the success event in slot s.
LoopRuns(s) == reqs[s].pc = "apply" /\ reqs[s].found /\ reqs'[s] = Idle

\* C5: a run of the inventory loop leaves no product with negative stock:
\* a line of quantity q takes its product from n to the larger of n - q and
\* 0, and a product no line names keeps its stock.
C5_DecrementFloorsAtZero ==
    [][\A s \in Slots : LoopRuns(s) =>
          \A id \in DOMAIN products :
              /\ products'[id].inventory >= 0
              /\ \A i \in DOMAIN reqs[s].items :
                    LET line == reqs[s].items[i]
                        n == products[id].inventory
                    IN (line.id = id /\ line.quantity.kind = "number") =>
                          products'[id].inventory =
                              IF n - line.quantity.n > 0 THEN n - line.quantity.n ELSE 0
              /\ (\A i \in DOMAIN reqs[s].items : reqs[s].items[i].id # id) =>
                    products'[id].inventory = products[id].inventory]_vars

\* The loop has run for a line that asked for more than was in stock, and the
\* product is at zero.
C5_StockExhausted ==
    \E o \in DOMAIN orders :
        /\ decrements[o] = 1
        /\ \E i \in DOMAIN orders[o].items :
              LET line == orders[o].items[i] IN
              /\ line.quantity.kind = "number"
              /\ stock0[line.id] > 0
              /\ line.quantity.n > stock0[line.id]
              /\ products[line.id].inventory = 0

\* The integer number of minor units nearest to a price in thousandths, the
\* half rounded up.
NearestCent(price) ==
    CHOOSE c \in (price \div 10)..(price \div 10 + 1) :
        10 * c - 5 <= price /\ price < 10 * c + 5

\* The quantity a line carries, and the quantity it counts for when a
\* quantity of zero or one that is no number counts as 1.
CarriedQuantity(line) == line.quantity.n
CountedQuantity(line) ==
    IF line.quantity.kind = "number" /\ line.quantity.n # 0 THEN line.quantity.n ELSE 1

LineSum(items, catalog, Quantity(_)) ==
    SumSeq([i \in DOMAIN items |->
               NearestCent(catalog[items[i].id].price) * Quantity(items[i])])

AllNumbers(items) == \A i \in DOMAIN items : items[i].quantity.kind = "number"

\* The steps of the checkout in slot s: it has read the prices, it inserts
\* its order, or it does anything else.
CheckoutReadPrices(s) == reqs[s] = Idle /\ reqs'[s].op = "checkout"
CheckoutInserts(s) == reqs[s].op = "checkout" /\ reqs[s].pc = "insert" /\ reqs'[s] # reqs[s]
CheckoutContinues(s) == reqs[s].op = "checkout" /\ reqs[s].pc # "insert" /\ reqs'[s] # reqs[s]

\* The step adds exactly one order, with the given snapshot and total, and
\* changes no other.
InsertsOneOrder(items, total) ==
    \E o \in DOMAIN orders' \ DOMAIN orders :
        /\ DOMAIN orders' = DOMAIN orders \cup {o}
        /\ orders'[o].items = items
        /\ orders'[o].total_cents = total
        /\ \A k \in DOMAIN orders : orders'[k] = orders[k]

\* A checkout whose cart has resolved creates exactly one order, holding the
\* cart and the total the checkout computed from the prices it read.
OneOrderPerCheckout(s) ==
    /\ CheckoutReadPrices(s) =>
          reqs'[s].items # <<>> /\ reqs'[s].pc = "insert" /\ orders' = orders
    /\ CheckoutInserts(s) => InsertsOneOrder(reqs[s].items, reqs[s].total)
    /\ CheckoutContinues(s) => DOMAIN orders' = DOMAIN orders

\* C6 as the specification states it: the order's total is the sum over the
\* cart's lines of the price in minor units times the quantity the line
\* carries (carts whose quantities are all numbers).
C6_TotalIsPriceTimesCarriedQuantity ==
    [][\A s \in Slots :
          /\ OneOrderPerCheckout(s)
          /\ (CheckoutReadPrices(s) /\ AllNumbers(reqs'[s].items)) =>
                reqs'[s].total = LineSum(reqs'[s].items, products, CarriedQuantity)]_vars

\* C6, amended: a checkout whose cart is not empty and resolves creates
\* exactly one order, and the order's total is the sum over the cart's lines
\* of the price rounded once to minor units times the line's quantity, where
\* a quantity of zero or one that is no number counts as 1.
C6_TotalIsPriceTimesCountedQuantity ==
    [][\A s \in Slots :
          /\ OneOrderPerCheckout(s)
          /\ CheckoutReadPrices(s) =>
                reqs'[s].total = LineSum(reqs'[s].items, products, CountedQuantity)]_vars

\* An order for a line of quantity zero on a product priced 1.996: its total
\* is 200 minor units, one unit at the rounded price.
C6_ZeroQuantityChargedOnce ==
    \E o \in DOMAIN orders :
        /\ orders[o].items = <<Item(1, Num(0))>>
        /\ orders[o].total_cents = 200

\* C7: a checkout whose cart names a product the catalog does not hold fails
\* (500), inserts no order and creates no payment at the provider: orders,
\* the id counter, the provider's records and the queued work are as before.
\* A checkout gets past its price lookup only with every id resolved.
C7_UnresolvableCartCreatesNothing ==
    [][/\ \A items \in Carts :
             CheckoutProductNotFound(items) =>
                 /\ response' = 500
                 /\ orders' = orders /\ lastID' = lastID
                 /\ payments' = payments /\ reqs' = reqs
       /\ \A s \in Slots :
             CheckoutReadPrices(s) =>
                 \A i \in DOMAIN reqs'[s].items : reqs'[s].items[i].id \in DOMAIN products]_vars

\* A checkout has failed on an unresolvable cart in a store that has never
\* held an order or a payment.
C7_FailedWithNothingCreated ==
    /\ response = 500
    /\ lastID = 0
    /\ orders = <<>>
    /\ payments = <<>>

\* C8: while an order exists, no step changes its item snapshot or its
\* total: not a catalog price change or a product deletion, not a webhook
\* delivery, a verify poll or an admin order update.
C8_SnapshotAndTotalFrozen ==
    [][\A o \in DOMAIN orders \cap DOMAIN orders' :
          /\ orders'[o].items = orders[o].items
          /\ orders'[o].total_cents = orders[o].total_cents]_vars

\* The order has been paid for, its stock taken and a tracking number set,
\* one of its products repriced and the other deleted: it still holds the
\* cart and the total of the day it was placed.
C8_OrderOutlivesCatalog ==
    /\ 1 \in DOMAIN orders
    /\ orders[1].items = TwoLines
    /\ orders[1].total_cents = NearestCent(InitialPrice) * (1 + MaxQuantity)
    /\ orders[1].status = "paid"
    /\ orders[1].tracking_number # Null
    /\ decrements[1] >= 1
    /\ DOMAIN products = {1}
    /\ products[1].price # InitialPrice

\* C9: a request to list, update or delete orders that carries no admin
\* session is answered 401 and changes no order and no product.
C9_UnauthorizedChangesNothing ==
    [][(\/ ListOrders(FALSE)
        \/ \E id \in OrderIds :
              \/ DeleteOrder(FALSE, id)
              \/ \E status \in AdminStatusInputs, tracking \in TrackingInputs :
                    UpdateOrder(FALSE, id, status, tracking))
       => (response' = 401 /\ orders' = orders /\ products' = products)]_vars

\* A request was refused while an order was waiting for its payment.
C9_RefusedWithOrderPending ==
    /\ response = 401
    /\ 1 \in DOMAIN orders
    /\ orders[1].status = "pending"

\* C10: an order's payment reference changes only from none to the id of the
\* payment its own checkout created, by that checkout's queued UPDATE; once
\* set, no webhook, verify poll or admin update changes it.
C10_ReferenceWrittenOnceByCheckout ==
    [][\A o \in DOMAIN orders \cap DOMAIN orders' :
          orders'[o].provider_payment_id # orders[o].provider_payment_id =>
              /\ orders[o].provider_payment_id = NoPayment
              /\ \E s \in Slots :
                    /\ reqs[s].op = "checkout" /\ reqs[s].pc = "persist"
                    /\ reqs[s].order = o
                    /\ reqs'[s] = Idle
                    /\ orders'[o].provider_payment_id = reqs[s].payment
                    /\ payments[reqs[s].payment].order = o]_vars

\* The reference is stored, and the order has since been paid for through
\* the webhook and updated by the admin.
C10_ReferenceKept ==
    /\ 1 \in DOMAIN orders
    /\ orders[1].provider_payment_id = 1
    /\ decrements[1] >= 1
    /\ orders[1].tracking_number # Null

\* The step receives a webhook request whose event is taken as genuine: a
\* Mollie notification (the lookup of its payment fails, or finds any
\* status, first delivery or redelivery), or a Stripe event with a valid
\* signature (of any type, for an order that exists or one that is gone).
WebhookReceived ==
    \/ WebhookMollieGetFails
    \/ \E p \in PaymentIds :
          \/ WebhookMollieIgnored(p)
          \/ \E s \in Slots : WebhookMolliePaid(s, p) \/ WebhookMollieTerminal(s, p)
    \/ StripeWebhookOtherEvent
    \/ \E o \in OrderIds :
          \/ StripeWebhookOrderMissing(o)
          \/ \E s \in Slots : StripeWebhookCompleted(s, o)

\* C11 as the specification states it: every webhook request is answered
\* 200, the one whose event fails verification included.
C11_EveryWebhookAcknowledged ==
    [][(WebhookReceived \/ StripeWebhookBadSignature) => response' = 200]_vars

\* C11, amended: every webhook request is answered 200 when the provider
\* lookup fails, when the event's order is gone and when the event is a
\* redelivery; a Stripe event whose signature does not verify is answered
\* 400 and changes nothing.
C11_GenuineWebhookAcknowledged ==
    [][/\ WebhookReceived => response' = 200
       /\ StripeWebhookBadSignature =>
             /\ response' = 400
             /\ orders' = orders /\ products' = products /\ reqs' = reqs]_vars

\* A redelivery of the success event has just been acknowledged: its
\* inventory loop is queued for an order whose loop has already run.
C11_RedeliveryAcknowledged ==
    /\ response = 200
    /\ \E s \in Slots :
          /\ reqs[s].pc = "apply"
          /\ reqs[s].order \in OrderIds
          /\ decrements[reqs[s].order] >= 1

\* The step changes no order and no product, and queues no work.
Untouched == orders' = orders /\ products' = products /\ reqs' = reqs

\* C12: a verify poll answers 400 when the order id is missing, 404 when no
\* order has the id and 500 when the provider query fails, and in these
\* three cases changes no order and no stock and queues no write; when the
\* provider answers, the poll answers 200 with the provider's status, whether
\* it goes on to write the order or not.
C12_VerifyOutcomes ==
    [][/\ VerifyMissingOrder => (response' = 400 /\ Untouched)
       /\ \A o \in OrderIds \cup {MaxOrders + 1} :
             VerifyOrderNotFound(o) => (response' = 404 /\ Untouched)
       /\ \A s \in Slots :
             /\ VerifyProviderError(s) =>
                   /\ response' = 500
                   /\ orders' = orders /\ products' = products
                   /\ reqs'[s] = Idle
             /\ VerifyFetch(s) =>
                   /\ response' = 200
                   /\ returned' = payments[reqs[s].payment].status]_vars

\* A poll has returned the provider's canceled, expired or failed and has
\* ended without writing: the order is still pending.
C12_StatusReturnedWithoutTransition ==
    /\ response = 200
    /\ returned \in TerminalStatuses \ {"paid"}
    /\ \A s \in Slots : reqs[s] = Idle
    /\ 1 \in DOMAIN orders
    /\ orders[1].status = "pending"

\* C13: a checkout whose item list is missing or empty is answered 400,
\* inserts no order and creates no payment at the provider; no checkout
\* gets as far as reading prices with an empty cart.
C13_EmptyCartRejected ==
    [][/\ \A items \in Carts :
             CheckoutNoItems(items) =>
                 /\ response' = 400
                 /\ orders' = orders /\ lastID' = lastID
                 /\ payments' = payments /\ reqs' = reqs
       /\ \A s \in Slots : CheckoutReadPrices(s) => reqs'[s].items # <<>>]_vars

\* An empty cart has been rejected in a store that has never held an order
\* or a payment.
C13_RejectedWithNothingCreated ==
    /\ response = 400
    /\ lastID = 0
    /\ orders = <<>>
    /\ payments = <<>>

\* The statuses the specification gives an order.
SpecifiedStatuses ==
    {"pending", "paid", "canceled", "expired", "failed",
     "processing", "shipped", "delivered"}

\* C14: in every reachable state every order's status is one of pending,
\* paid, canceled, expired, failed, processing, shipped and delivered,
\* whatever bodies the admin's updates carry.
C14_StatusInDomain ==
    \A o \in DOMAIN orders : orders[o].status \in SpecifiedStatuses

\* The order's status is terminal and the step is taken by a webhook or a
\* verify poll (the admin's requests are answered at once and queue nothing).
PaymentDrivenStep ==
    \E s \in Slots : reqs[s].op \in {"webhook", "stripe", "verify"} /\ reqs'[s] # reqs[s]

\* C15: once an order's status is paid, canceled, expired or failed, no
\* step of a webhook delivery or of a verify poll changes it to another
\* value.
C15_TerminalStatusKept ==
    [][PaymentDrivenStep =>
          \A o \in DOMAIN orders \cap DOMAIN orders' :
              orders[o].status \in TerminalStatuses =>
                  orders'[o].status = orders[o].status]_vars

\* C16: a webhook or verify step that makes an order paid for the first
\* time takes, in that same step, every product of the order's snapshot
\* from its stock n to the larger of n - quantity and 0.
C16_FirstPaidDecrements ==
    [][PaymentDrivenStep =>
          \A o \in DOMAIN orders \cap DOMAIN orders' :
              (~everPaid[o] /\ orders[o].status # "paid" /\ orders'[o].status = "paid") =>
                  \A i \in DOMAIN orders[o].items :
                      LET line == orders[o].items[i]
                          n == products[line.id].inventory
                      IN (line.id \in DOMAIN products /\ line.quantity.kind = "number") =>
                            products'[line.id].inventory =
                                IF n - line.quantity.n > 0 THEN n - line.quantity.n ELSE 0]_vars

\* The step ends the verify poll in slot s with the provider's answer.
PollEnds(s) ==
    /\ reqs[s].op = "verify"
    /\ reqs'[s] = Idle
    /\ reqs[s].pc = "fetch" => response' = 200
    /\ reqs[s].order \in DOMAIN orders

\* The provider status the poll in slot s has acted on when it ends.
Polled(s) ==
    IF reqs[s].pc = "fetch" THEN payments[reqs[s].payment].status ELSE reqs[s].status

\* C17: a verify poll that the provider answers with paid, canceled,
\* expired or failed leaves its order with the status that the webhook's
\* UPDATE for the same provider status writes, which is that status.
C17_PollAppliesWebhookTransition ==
    [][\A s \in Slots :
          (PollEnds(s) /\ Polled(s) \in TerminalStatuses) =>
              orders'[reqs[s].order].status =
                  SetStatus(orders, reqs[s].order, Polled(s))[reqs[s].order].status]_vars

\* The provider answers the poll in slot s with a status that is none of
\* paid, canceled, expired and failed.
PollSeesOpen(s) ==
    /\ reqs[s].op = "verify"
    /\ reqs[s].pc = "fetch"
    /\ reqs'[s] # reqs[s]
    /\ reqs[s].payment \in DOMAIN payments
    /\ payments[reqs[s].payment].status \notin TerminalStatuses

\* C18: a webhook delivery or a verify poll whose payment the provider
\* reports in a status other than paid, canceled, expired and failed changes
\* no order and no product's stock, and queues no write that would.
C18_OpenStatusChangesNothing ==
    [][/\ \A p \in PaymentIds :
             WebhookMollieIgnored(p) =>
                 (orders' = orders /\ products' = products /\ reqs' = reqs)
       /\ \A s \in Slots :
             PollSeesOpen(s) =>
                 (orders' = orders /\ products' = products /\ reqs'[s] = Idle)]_vars

\* A poll has returned the status open and its order is still pending with
\* nothing queued.
C18_OpenPolled ==
    /\ response = 200
    /\ returned = "open"
    /\ \A s \in Slots : reqs[s] = Idle
    /\ \E o \in DOMAIN orders :
          /\ orders[o].status = "pending"
          /\ orders[o].provider_payment_id \in DOMAIN payments
          /\ payments[orders[o].provider_payment_id].status = "open"
    /\ \A id \in DOMAIN products : products[id].inventory = stock0[id]

\* The step runs the UPDATE that a webhook delivery of canceled, expired or
\* failed has queued in slot s.
TerminalUpdateRuns(s) ==
    /\ reqs[s].op = "webhook"
    /\ reqs[s].pc = "update"
    /\ reqs'[s] = Idle

\* C19: a webhook delivery whose payment is canceled, expired or failed is
\* acknowledged and queues one UPDATE carrying that status; the UPDATE sets
\* the order's status to it, changes nothing else of the order and no
\* product's stock, and on an order that already has the status (a second
\* delivery) it changes nothing at all.
C19_TerminalStatusWrittenIdempotently ==
    [][/\ \A s \in Slots, p \in PaymentIds :
             WebhookMollieTerminal(s, p) =>
                 /\ reqs'[s].pc = "update"
                 /\ reqs'[s].order = payments[p].order
                 /\ reqs'[s].status = payments[p].status
                 /\ orders' = orders /\ products' = products
       /\ \A s \in Slots :
             (TerminalUpdateRuns(s) /\ reqs[s].order \in DOMAIN orders) =>
                 /\ orders' = [orders EXCEPT ![reqs[s].order].status = reqs[s].status]
                 /\ products' = products
                 /\ orders[reqs[s].order].status = reqs[s].status =>
                        (orders' = orders /\ payments' = payments /\ lastID' = lastID)]_vars

\* A second delivery of the same status is about to be applied to an order
\* that the first delivery has given that status; no stock has moved.
C19_SecondDeliveryQueued ==
    \E s \in Slots :
        /\ reqs[s].op = "webhook"
        /\ reqs[s].pc = "update"
        /\ reqs[s].status \in TerminalStatuses \ {"paid"}
        /\ reqs[s].order \in DOMAIN orders
        /\ orders[reqs[s].order].status = reqs[s].status
        /\ \A id \in DOMAIN products : products[id].inventory = stock0[id]

\* The step runs what a webhook delivery queued in slot s for an order that
\* was not there: the callback of a SELECT that found no row, or the UPDATE
\* of a status on an id that no row has.
MissingOrderStep(s) ==
    /\ reqs[s].op \in {"webhook", "stripe"}
    /\ reqs'[s] = Idle
    /\ \/ reqs[s].pc = "apply" /\ ~reqs[s].found
       \/ reqs[s].pc = "update" /\ reqs[s].order \notin DOMAIN orders

\* C20: a webhook event whose order does not exist (it was deleted, or the
\* event names a payment the provider does not know) is answered with 200,
\* and neither its arrival nor what it queues creates or changes an order or
\* changes a product's stock, whatever status the provider reports.
C20_MissingOrderChangesNothing ==
    [][/\ \A s \in Slots, p \in PaymentIds :
             ((WebhookMolliePaid(s, p) \/ WebhookMollieTerminal(s, p))
                 /\ payments[p].order \notin DOMAIN orders) =>
                 (response' = 200 /\ orders' = orders /\ products' = products)
       /\ WebhookMollieGetFails =>
             (response' = 200 /\ orders' = orders /\ products' = products /\ reqs' = reqs)
       /\ \A o \in OrderIds :
             StripeWebhookOrderMissing(o) =>
                 (response' = 200 /\ orders' = orders /\ products' = products /\ reqs' = reqs)
       /\ \A s \in Slots :
             MissingOrderStep(s) => (orders' = orders /\ products' = products)]_vars

\* The paid webhook of a deleted order has been acknowledged and its SELECT
\* found no row.
C20_DeletedOrderAcknowledged ==
    /\ response = 200
    /\ orders = <<>>
    /\ \E s \in Slots :
          /\ reqs[s].op = "webhook"
          /\ reqs[s].pc = "apply"
          /\ ~reqs[s].found
          /\ reqs[s].order \in OrderIds

\* C21: when the provider's create call fails after the order was inserted,
\* the checkout answers with an error (500) and ends; the order is there
\* with status pending and no payment reference, no payment exists for it,
\* and no order and no product is changed.
C21_ProviderFailureLeavesPendingOrder ==
    [][\A s \in Slots :
          CheckoutProviderError(s) =>
              /\ response' = 500
              /\ reqs'[s] = Idle
              /\ orders' = orders /\ products' = products /\ payments' = payments
              /\ reqs[s].order \in DOMAIN orders'
              /\ orders'[reqs[s].order].status = "pending"
              /\ orders'[reqs[s].order].provider_payment_id = NoPayment
              /\ \A p \in DOMAIN payments' : payments'[p].order # reqs[s].order]_vars

\* A checkout has failed at the provider and left its order behind.
C21_FailedAtProvider ==
    /\ response = 500
    /\ \A s \in Slots : reqs[s] = Idle
    /\ payments = <<>>
    /\ \E o \in DOMAIN orders :
          /\ orders[o].status = "pending"
          /\ orders[o].provider_payment_id = NoPayment
          /\ orders[o].items = TwoLines

\* The Mollie checkout of order o has returned its redirect URL: the
\* provider holds the payment that the checkout created for o.
CheckoutAnswered(o) ==
    \E p \in DOMAIN payments : payments[p].order = o /\ payments[p].provider = "mollie"

\* The step sends the answer of the Mollie checkout in slot s.
CheckoutAnswers(s) ==
    /\ reqs[s].op = "checkout"
    /\ reqs[s].pc = "create"
    /\ reqs[s].provider = "mollie"
    /\ reqs'[s] # reqs[s]
    /\ response' = 200

\* C22: a checkout calls the provider only for an order it has inserted,
\* and it has stored the payment reference on the order when it answers,
\* so that a verify poll whose SELECT runs after the checkout's answer reads
\* the order with its reference set.
C22_ReferenceStoredBeforeAnswer ==
    [][/\ \A s \in Slots :
             (reqs[s].op = "checkout" /\ payments' # payments) =>
                 (reqs[s].order \in DOMAIN orders
                    /\ \A p \in DOMAIN payments' \ DOMAIN payments :
                          payments'[p].order = reqs[s].order)
       /\ \A s \in Slots :
             CheckoutAnswers(s) =>
                 orders'[reqs[s].order].provider_payment_id # NoPayment
       /\ \A s \in Slots, o \in OrderIds :
             (VerifySelect(s, o) /\ CheckoutAnswered(o)) =>
                 reqs'[s].payment # NoPayment]_vars

\* The quantity a line is to be charged for when every quantity that is not
\* a positive number counts as 1.
PositiveOrOne(line) ==
    IF line.quantity.kind = "number" /\ line.quantity.n > 0 THEN line.quantity.n ELSE 1

\* C23: the total a checkout computes charges a line whose quantity is no
\* number, zero or negative as one unit, and the order it inserts holds the
\* cart exactly as it was sent.
C23_NonPositiveQuantityChargedAsOne ==
    [][\A s \in Slots :
          /\ CheckoutReadPrices(s) =>
                reqs'[s].total = LineSum(reqs'[s].items, products, PositiveOrOne)
          /\ CheckoutInserts(s) => InsertsOneOrder(reqs[s].items, reqs[s].total)]_vars

\* C24: a run of the inventory loop over a snapshot that names a product
\* the catalog no longer holds skips that line and nothing else: no product
\* appears, every line whose product exists takes it from n to the larger
\* of n - quantity and 0, a product no line names keeps its stock, and the
\* order becomes paid.
C24_MissingProductSkipped ==
    [][\A s \in Slots : LoopRuns(s) =>
          /\ DOMAIN products' = DOMAIN products
          /\ \A i \in DOMAIN reqs[s].items :
                LET line == reqs[s].items[i] IN
                (line.id \in DOMAIN products /\ line.quantity.kind = "number") =>
                    products'[line.id].inventory =
                        Max(products[line.id].inventory - line.quantity.n, 0)
          /\ \A id \in DOMAIN products :
                (\A i \in DOMAIN reqs[s].items : reqs[s].items[i].id # id) =>
                    products'[id] = products[id]
          /\ reqs[s].order \in DOMAIN orders =>
                (reqs[s].order \in DOMAIN orders' /\ orders'[reqs[s].order].status = "paid")]_vars

\* The paid event of a pending order is about to be applied, the first
\* product of its snapshot has been deleted and the second is in stock.
C24_LoopMeetsMissingProduct ==
    \E s \in Slots :
        /\ reqs[s].pc = "apply"
        /\ reqs[s].found
        /\ reqs[s].items = TwoLines
        /\ reqs[s].order \in DOMAIN orders
        /\ orders[reqs[s].order].status = "pending"
        /\ TwoLines[1].id \notin DOMAIN products
        /\ TwoLines[2].id \in DOMAIN products
        /\ products[TwoLines[2].id].inventory > 0

\* C25: a run of the inventory loop takes from each product of the snapshot
\* the quantity that the checkout charged for its line, when the product
\* has that much in stock: also for a line whose quantity is zero or no
\* number.
C25_ChargedQuantityIsTaken ==
    [][\A s \in Slots : LoopRuns(s) =>
          \A i \in DOMAIN reqs[s].items :
              LET line == reqs[s].items[i]
                  charged == Normalized(reqs[s].items, products)[i].quantity
              IN (line.id \in DOMAIN products /\ products[line.id].inventory >= charged) =>
                    products[line.id].inventory - products'[line.id].inventory = charged]_vars

\* C26: a run of the inventory loop raises no product's stock, and no
\* checkout inserts an order whose total is negative, whatever quantities
\* the cart carries.
C26_NoStockGainNoNegativeTotal ==
    [][/\ \A s \in Slots : LoopRuns(s) =>
             \A id \in DOMAIN products \cap DOMAIN products' :
                 products'[id].inventory <= products[id].inventory
       /\ \A o \in DOMAIN orders' \ DOMAIN orders : orders'[o].total_cents >= 0]_vars

\* The provider reports the payment of order o as paid.
ProviderReportsPaid(o) ==
    \E p \in DOMAIN payments : payments[p].order = o /\ payments[p].status = "paid"

\* The step is an authorized PUT /api/orders/o.
AdminUpdates(o) ==
    \E status \in AdminStatusInputs, tracking \in TrackingInputs :
        UpdateOrder(TRUE, o, status, tracking)

\* C27: a step makes an order paid only if it is the admin's update of
\* that order, or a step of a webhook or verify poll taken while the
\* provider reports the order's payment as paid (a provider's final status
\* never changes, so it was reported before the request as well).
C27_PaidOnlyOnProviderWord ==
    [][\A o \in DOMAIN orders \cap DOMAIN orders' :
          (orders[o].status # "paid" /\ orders'[o].status = "paid") =>
              \/ AdminUpdates(o)
              \/ PaymentDrivenStep /\ ProviderReportsPaid(o)]_vars

\* An order is paid that the admin never touched, and its Stripe session
\* was paid.
C27_PaidAfterProviderPaid ==
    \E o \in DOMAIN orders :
        /\ orders[o].status = "paid"
        /\ orders[o].tracking_number = Null
        /\ orders[o].provider # "mollie"
        /\ decrements[o] = 1
        /\ ProviderReportsPaid(o)
        /\ \A s \in Slots : reqs[s] = Idle

\* The statuses the admin gives an order in fulfilment.
FulfilmentStatuses == {"processing", "shipped", "delivered"}

\* C28: once an order's status is processing, shipped or delivered, no step
\* of a webhook delivery or of a verify poll changes it.
C28_FulfilmentStatusKept ==
    [][PaymentDrivenStep =>
          \A o \in DOMAIN orders \cap DOMAIN orders' :
              orders[o].status \in FulfilmentStatuses =>
                  orders'[o].status = orders[o].status]_vars

\* C29: an authorized update of order o that carries only a tracking
\* number leaves the order's status as it was, one that carries only a
\* status leaves its tracking number as it was, and no update changes an
\* order other than o.
C29_UpdateTouchesOnlyWhatIsSent ==
    [][\A o \in DOMAIN orders, status \in AdminStatusInputs, tracking \in TrackingInputs :
          UpdateOrder(TRUE, o, status, tracking) =>
              /\ DOMAIN orders' = DOMAIN orders
              /\ \A k \in DOMAIN orders \ {o} : orders'[k] = orders[k]
              /\ (status = Null /\ tracking # Null) => orders'[o].status = orders[o].status
              /\ (status # Null /\ tracking = Null) =>
                    orders'[o].tracking_number = orders[o].tracking_number]_vars

\* The step is taken by the checkout in slot s, which names a provider that
\* is a stub or is not known at all.
UnsupportedCheckoutSteps(s) ==
    /\ reqs[s].op = "checkout"
    /\ reqs[s].provider \notin {"mollie", "stripe"}
    /\ reqs'[s] # reqs[s]

\* C30: a checkout that names a stub or an unknown provider ends in an
\* error, calls no provider and creates no order: no step of it changes the
\* orders or the provider's payments.
C30_UnsupportedProviderCreatesNothing ==
    [][\A s \in Slots :
          UnsupportedCheckoutSteps(s) =>
              /\ orders' = orders /\ lastID' = lastID
              /\ payments' = payments
              /\ reqs'[s] = Idle => response' \in {400, 501}]_vars

====
